---------------------------- MODULE Spec2Model ----------------------------
(* A model of the chess engine's FEN validator and decoders                *)
(* (src/src/engine/fen.py), the square codec (src/src/engine/move.py),      *)
(* the piece model (src/src/engine/piece.py) and the board store            *)
(* (src/src/engine/board.py).                                               *)
(*                                                                          *)
(* Spec is one call of one pure function from the idle state.  BoardSpec is *)
(* a ChessBoard object and a sequence of calls of its methods: squares is   *)
(* the object's field and calls counts the calls made.                      *)
(*                                                                          *)
(* A Python str is modelled as a sequence of characters; a character is a   *)
(* one-character TLA+ string.  The one exception is the name "SUP2", which  *)
(* stands for the single character U+00B2 (superscript two): str.isdigit()  *)
(* is true of it and int() rejects it.  Likewise "KELVIN" stands for the    *)
(* single character U+212A (Kelvin sign): str.isupper() is true of it and   *)
(* str.lower() turns it into "k".                                           *)
EXTENDS Integers, Sequences, FiniteSets, TLC

VARIABLES pc, arg, ret, squares, calls

vars == <<pc, arg, ret, squares, calls>>

(***************************************************************************)
(* Characters and the str methods the code uses.                           *)
(***************************************************************************)

\* The whitespace characters str.strip() and str.split() remove.
Whitespace == {" ", "\t", "\n"}

DigitChars == <<"0", "1", "2", "3", "4", "5", "6", "7", "8", "9">>

AsciiDigits == {DigitChars[i] : i \in 1..Len(DigitChars)}

UpperChars == <<"A", "B", "C", "D", "E", "F", "G", "H", "I", "J", "K", "L", "M",
                "N", "O", "P", "Q", "R", "S", "T", "U", "V", "W", "X", "Y", "Z">>

LowerChars == <<"a", "b", "c", "d", "e", "f", "g", "h", "i", "j", "k", "l", "m",
                "n", "o", "p", "q", "r", "s", "t", "u", "v", "w", "x", "y", "z">>

\* The 0-based index of character ch in the sequence s, -1 when absent (str.find).
StrFind(s, ch) ==
    IF \E i \in 1..Len(s) : s[i] = ch
    THEN (CHOOSE i \in 1..Len(s) : s[i] = ch /\ \A j \in 1..(i - 1) : s[j] # ch) - 1
    ELSE -1

\* str.isupper() of one character: A..Z and other Unicode uppercase letters.
CharIsUpper(ch) == StrFind(UpperChars, ch) >= 0 \/ ch = "KELVIN"

\* str.lower() of one character.
CharLower(ch) ==
    IF ch = "KELVIN" THEN "k"
    ELSE IF StrFind(UpperChars, ch) >= 0 THEN LowerChars[StrFind(UpperChars, ch) + 1]
    ELSE ch

\* str.isdigit() of one character: the ASCII digits and other Unicode digits.
CharIsDigit(ch) == ch \in AsciiDigits \cup {"SUP2"}

\* str.isdigit(): a non-empty string of digit characters.
StrIsDigit(s) == Len(s) >= 1 /\ \A i \in 1..Len(s) : CharIsDigit(s[i])

\* str.isupper() / str.lower() of a string.
StrIsUpper(s) ==
    /\ \E i \in 1..Len(s) : CharIsUpper(s[i])
    /\ \A i \in 1..Len(s) : StrFind(LowerChars, s[i]) < 0

StrLower(s) == [i \in 1..Len(s) |-> CharLower(s[i])]

\* str.strip(): leading and trailing whitespace removed.
StrStrip(s) ==
    IF \A i \in 1..Len(s) : s[i] \in Whitespace
    THEN <<>>
    ELSE LET lo == CHOOSE i \in 1..Len(s) :
                       s[i] \notin Whitespace /\ \A j \in 1..(i - 1) : s[j] \in Whitespace
             hi == CHOOSE i \in 1..Len(s) :
                       s[i] \notin Whitespace /\ \A j \in (i + 1)..Len(s) : s[j] \in Whitespace
         IN  SubSeq(s, lo, hi)

RECURSIVE SplitWsFrom(_, _, _, _)
SplitWsFrom(s, i, cur, acc) ==
    IF i > Len(s)
    THEN IF cur = <<>> THEN acc ELSE Append(acc, cur)
    ELSE IF s[i] \in Whitespace
         THEN SplitWsFrom(s, i + 1, <<>>, IF cur = <<>> THEN acc ELSE Append(acc, cur))
         ELSE SplitWsFrom(s, i + 1, Append(cur, s[i]), acc)

\* str.split() without a separator: the maximal runs of non-whitespace.
StrSplit(s) == SplitWsFrom(s, 1, <<>>, <<>>)

RECURSIVE SplitOnFrom(_, _, _, _, _)
SplitOnFrom(s, sep, i, cur, acc) ==
    IF i > Len(s)
    THEN Append(acc, cur)
    ELSE IF s[i] = sep
         THEN SplitOnFrom(s, sep, i + 1, <<>>, Append(acc, cur))
         ELSE SplitOnFrom(s, sep, i + 1, Append(cur, s[i]), acc)

\* str.split(sep) with a one-character separator: empty pieces are kept.
StrSplitOn(s, sep) == SplitOnFrom(s, sep, 1, <<>>, <<>>)

\* re.match(r"^[class]+$", s): "$" also matches before one trailing newline.
ReMatchPlus(s, class) ==
    LET body == IF Len(s) >= 1 /\ s[Len(s)] = "\n" THEN SubSeq(s, 1, Len(s) - 1) ELSE s
    IN  Len(body) >= 1 /\ \A i \in 1..Len(body) : body[i] \in class

\* int() of one ASCII digit character.
DigitValue(ch) == StrFind(DigitChars, ch)

RECURSIVE DigitsValue(_, _, _)
DigitsValue(s, i, acc) ==
    IF i > Len(s) THEN acc ELSE DigitsValue(s, i + 1, 10 * acc + DigitValue(s[i]))

\* The two outcomes of a call: a returned value or a raised exception.
Return(v) == [kind |-> "return", exc |-> "", value |-> v]

Raise(exc, payload) == [kind |-> "raise", exc |-> exc, value |-> payload]

\* int(s): surrounding whitespace and one sign are allowed, then ASCII digits
\* only; anything else is a ValueError.
PyInt(s) ==
    LET t == StrStrip(s)
        signed == Len(t) >= 1 /\ t[1] \in {"+", "-"}
        digits == IF signed THEN SubSeq(t, 2, Len(t)) ELSE t
    IN  IF Len(digits) >= 1 /\ \A i \in 1..Len(digits) : digits[i] \in AsciiDigits
        THEN Return(IF signed /\ t[1] = "-"
                    THEN 0 - DigitsValue(digits, 1, 0)
                    ELSE DigitsValue(digits, 1, 0))
        ELSE Raise("ValueError", s)

(***************************************************************************)
(* piece.py and board.py                                                   *)
(***************************************************************************)

BoardSize == 8

\* The value None of an empty square.
None == [type |-> "None", color |-> "None"]

Piece(type, color) == [type |-> type, color |-> color]

FEN_PIECETYPE_MAP ==
    [ch \in {"p", "r", "n", "b", "q", "k"} |->
        CASE ch = "p" -> "PAWN"
          [] ch = "r" -> "ROOK"
          [] ch = "n" -> "KNIGHT"
          [] ch = "b" -> "BISHOP"
          [] ch = "q" -> "QUEEN"
          [] ch = "k" -> "KING"]

\* The values of the PieceType enumeration.
PieceTypeValue ==
    [type \in {"PAWN", "ROOK", "KNIGHT", "BISHOP", "QUEEN", "KING"} |->
        CASE type = "PAWN" -> "p"
          [] type = "ROOK" -> "r"
          [] type = "KNIGHT" -> "n"
          [] type = "BISHOP" -> "b"
          [] type = "QUEEN" -> "q"
          [] type = "KING" -> "k"]

is_king(piece) == CharLower(PieceTypeValue[piece.type]) = "k"

\* The dictionary FEN_MAP of piece.py.
FEN_MAP ==
    [ch \in {"p", "r", "n", "b", "q", "k"} |->
        CASE ch = "p" -> "PAWN"
          [] ch = "r" -> "ROOK"
          [] ch = "n" -> "KNIGHT"
          [] ch = "b" -> "BISHOP"
          [] ch = "q" -> "QUEEN"
          [] ch = "k" -> "KING"]

create_empty_squares == [row \in 0..(BoardSize - 1) |-> [col \in 0..(BoardSize - 1) |-> None]]

\* A Python list index: 0..len-1 as is, -len..-1 counted from the end, and
\* -1 here for anything else (an IndexError).
ListIndex(i, len) ==
    IF 0 <= i /\ i < len THEN i
    ELSE IF 0 - len <= i /\ i < 0 THEN i + len
    ELSE -1

\* ChessBoard.set_piece: squares[row][col] = piece.
set_piece(board, piece, row, col) ==
    LET r == ListIndex(row, BoardSize)
        c == ListIndex(col, BoardSize)
    IN  IF r < 0 \/ c < 0
        THEN Raise("IndexError", <<row, col>>)
        ELSE Return([board EXCEPT ![r][c] = piece])

\* The expression self.squares[row][col].
SquareAt(board, row, col) ==
    LET r == ListIndex(row, BoardSize)
        c == ListIndex(col, BoardSize)
    IN  IF r < 0 \/ c < 0
        THEN Raise("IndexError", <<row, col>>)
        ELSE Return(board[r][c])

get_square(board, row, col) == SquareAt(board, row, col)

move_piece_clears_start(board, start_row, start_col, end_row, end_col) ==
    LET piece == SquareAt(board, start_row, start_col)
        placed == set_piece(board, piece.value, end_row, end_col)
    IN  IF piece.kind = "raise" THEN piece
        ELSE IF piece.value # None
             THEN IF placed.kind = "raise" THEN placed
                  ELSE set_piece(placed.value, None, start_row, start_col)
             ELSE Return(board)

\* ChessBoard.move_piece: the board after the call, or the IndexError of the
\* read of the start square or of the assignment to the end square.
move_piece(board, start_row, start_col, end_row, end_col) ==
    LET piece == SquareAt(board, start_row, start_col)
    IN  IF piece.kind = "raise" THEN piece
        ELSE IF piece.value # None
             THEN set_piece(board, piece.value, end_row, end_col)
             ELSE Return(board)

in_bounds(row, col) == row \in 0..(BoardSize - 1) /\ col \in 0..(BoardSize - 1)

\* The loops of find_king from (row, col) on; the None returned when the
\* loops end is written <<>>.
RECURSIVE FindKingFrom(_, _, _, _)
FindKingFrom(board, color, row, col) ==
    IF row > BoardSize - 1 THEN Return(<<>>)
    ELSE IF col > BoardSize - 1 THEN FindKingFrom(board, color, row + 1, 0)
    ELSE LET piece == board[row][col]
         IN  IF piece # None /\ is_king(piece) /\ piece.color = color
             THEN Return(<<row, col>>)
             ELSE FindKingFrom(board, color, row, col + 1)

\* The loops of find_king nested the other way round: columns outside, rows
\* inside.
RECURSIVE FindKingByColumnFrom(_, _, _, _)
FindKingByColumnFrom(board, color, row, col) ==
    IF col > BoardSize - 1 THEN Return(<<>>)
    ELSE IF row > BoardSize - 1 THEN FindKingByColumnFrom(board, color, 0, col + 1)
    ELSE LET piece == board[row][col]
         IN  IF piece # None /\ is_king(piece) /\ piece.color = color
             THEN Return(<<row, col>>)
             ELSE FindKingByColumnFrom(board, color, row + 1, col)

find_king_column_major(board, color) == FindKingByColumnFrom(board, color, 0, 0)

find_king(board, color) == FindKingFrom(board, color, 0, 0)

\* Piece.from_fen_symbol: the KeyError of the dictionary lookup becomes a
\* ValueError.
from_fen_symbol(fen) ==
    LET color == IF StrIsUpper(fen) THEN "WHITE" ELSE "BLACK"
        key == StrLower(fen)
    IN  IF Len(key) = 1 /\ key[1] \in DOMAIN FEN_MAP
        THEN Return(Piece(FEN_MAP[key[1]], color))
        ELSE Raise("ValueError", fen)

(***************************************************************************)
(* move.py: the square codec                                               *)
(***************************************************************************)

FileChars == <<"a", "b", "c", "d", "e", "f", "g", "h">>

RankChars == <<"1", "2", "3", "4", "5", "6", "7", "8">>

is_valid_square(row, col) == row \in 0..(BoardSize - 1) /\ col \in 0..(BoardSize - 1)

is_valid_squarename_lowercase_only(square_name) ==
    IF Len(square_name) # 2
    THEN FALSE
    ELSE /\ StrFind(FileChars, square_name[1]) >= 0
         /\ StrFind(RankChars, square_name[2]) >= 0

is_valid_squarename(square_name) ==
    IF Len(square_name) # 2
    THEN FALSE
    ELSE /\ StrFind(FileChars, CharLower(square_name[1])) >= 0
         /\ StrFind(RankChars, square_name[2]) >= 0

squarename_to_index(square_name) ==
    IF ~is_valid_squarename(square_name)
    THEN Raise("NotationError", square_name)
    ELSE Return(<<DigitValue(square_name[2]) - 1,
                  StrFind(FileChars, CharLower(square_name[1]))>>)

index_to_squarename_row_as_file(row, col) ==
    IF ~is_valid_square(row, col)
    THEN Raise("NotationError", <<row, col>>)
    ELSE Return(<<FileChars[row + 1], DigitChars[col + 2]>>)

index_to_squarename(row, col) ==
    IF ~is_valid_square(row, col)
    THEN Raise("NotationError", <<row, col>>)
    ELSE Return(<<FileChars[col + 1], DigitChars[row + 2]>>)

(***************************************************************************)
(* fen.py: the validator                                                   *)
(***************************************************************************)

PieceChars == {"p", "r", "n", "b", "q", "k", "P", "R", "N", "B", "Q", "K"}

\* The character class [prnbqkPRNBQK1-8/] of the placement pattern.
PlacementClass == PieceChars \cup {"1", "2", "3", "4", "5", "6", "7", "8", "/"}

CastlingClass == {"K", "Q", "k", "q"}

\* re.match(r"^[a-h][36]$", s)
ReMatchEnPassant(s) ==
    LET body == IF Len(s) >= 1 /\ s[Len(s)] = "\n" THEN SubSeq(s, 1, Len(s) - 1) ELSE s
    IN  /\ Len(body) = 2
        /\ body[1] \in {"a", "b", "c", "d", "e", "f", "g", "h"}
        /\ body[2] \in {"3", "6"}

EmptyRow == [col \in 0..(BoardSize - 1) |-> ""]

\* The inner loop of is_valid_fen over one row of the placement field: ok is
\* FALSE where the code returns False (or int() raises, which the except
\* clause turns into False), cells is board[board_row].
RECURSIVE ScanRow(_, _, _, _)
ScanRow(row, i, col, cells) ==
    IF i > Len(row)
    THEN [ok |-> col = BoardSize, cells |-> cells]
    ELSE LET ch == row[i]
         IN  IF CharIsDigit(ch)
             THEN IF ch \in AsciiDigits
                  THEN ScanRow(row, i + 1, col + DigitValue(ch), cells)
                  ELSE [ok |-> FALSE, cells |-> cells]
             ELSE IF ch \in PieceChars
                  THEN IF col >= BoardSize
                       THEN [ok |-> FALSE, cells |-> cells]
                       ELSE ScanRow(row, i + 1, col + 1, [cells EXCEPT ![col] = ch])
                  ELSE [ok |-> FALSE, cells |-> cells]

\* Whether the loop over the rows ends without returning False.
rows_ok(rows) == \A i \in 1..Len(rows) : ScanRow(rows[i], 1, 0, EmptyRow).ok

\* The validator's board of characters: row 0 = rank 1, row 7 = rank 8.
validator_board(rows) ==
    [board_row \in 0..(BoardSize - 1) |->
        ScanRow(rows[BoardSize - board_row], 1, 0, EmptyRow).cells]

CountOnBoard(board, ch) ==
    Cardinality({sq \in (0..(BoardSize - 1)) \X (0..(BoardSize - 1)) : board[sq[1]][sq[2]] = ch})

king_count_ok_white_only(board) == CountOnBoard(board, "K") = 1

king_count_ok(board) == CountOnBoard(board, "K") = 1 /\ CountOnBoard(board, "k") = 1

king_positions ==
    [flag \in CastlingClass |->
        CASE flag = "K" -> <<0, 4>>
          [] flag = "Q" -> <<0, 4>>
          [] flag = "k" -> <<7, 4>>
          [] flag = "q" -> <<7, 4>>]

rook_positions ==
    [flag \in CastlingClass |->
        CASE flag = "K" -> <<0, 7>>
          [] flag = "Q" -> <<0, 0>>
          [] flag = "k" -> <<7, 7>>
          [] flag = "q" -> <<7, 0>>]

flag_ok(board, flag) ==
    /\ flag \in CastlingClass
    /\ LET k == king_positions[flag]
           r == rook_positions[flag]
           expected_king == IF CharIsUpper(flag) THEN "K" ELSE "k"
           expected_rook == IF CharIsUpper(flag) THEN "R" ELSE "r"
       IN  ~(board[k[1]][k[2]] # expected_king \/ board[r[1]][r[2]] # expected_rook)

castling_ok_first_flag_only(board, castling_rights) ==
    castling_rights = <<"-">> \/ flag_ok(board, castling_rights[1])

castling_ok(board, castling_rights) ==
    \/ castling_rights = <<"-">>
    \/ \A i \in 1..Len(castling_rights) : flag_ok(board, castling_rights[i])

en_passant_ok(board, active_color, en_passant) ==
    \/ en_passant = <<"-">>
    \/ LET file == StrFind(LowerChars, en_passant[1]) - StrFind(LowerChars, "a")
           rank == DigitValue(en_passant[2])
           row == rank - 1
       IN  IF active_color = <<"w">>
           THEN ~(rank # 6 \/ board[row][file] # "p")
           ELSE IF active_color = <<"b">>
                THEN ~(rank # 3 \/ board[row][file] # "P")
                ELSE FALSE

is_valid_fen(fen) ==
    LET parts == StrSplit(StrStrip(fen))
    IN  IF Len(parts) # 6
        THEN FALSE
        ELSE
        LET piece_placement == parts[1]
            active_color == parts[2]
            castling_rights == parts[3]
            en_passant == parts[4]
            halfmove_clock == parts[5]
            fullmove_number == parts[6]
            rows == StrSplitOn(piece_placement, "/")
        IN  IF ~ReMatchPlus(piece_placement, PlacementClass) THEN FALSE
            ELSE IF active_color \notin {<<"w">>, <<"b">>} THEN FALSE
            ELSE IF castling_rights # <<"-">> /\ ~ReMatchPlus(castling_rights, CastlingClass)
                 THEN FALSE
            ELSE IF en_passant # <<"-">> /\ ~ReMatchEnPassant(en_passant) THEN FALSE
            ELSE IF ~StrIsDigit(halfmove_clock) \/ ~StrIsDigit(fullmove_number) THEN FALSE
            ELSE IF Len(rows) # 8 THEN FALSE
            ELSE IF ~rows_ok(rows) THEN FALSE
            ELSE IF ~king_count_ok(validator_board(rows)) THEN FALSE
            ELSE IF ~castling_ok(validator_board(rows), castling_rights) THEN FALSE
            ELSE IF ~en_passant_ok(validator_board(rows), active_color, en_passant) THEN FALSE
            ELSE TRUE

(***************************************************************************)
(* fen.py: the decoders                                                    *)
(***************************************************************************)

piece_from_fen(fen_symbol) ==
    LET color == IF StrIsUpper(fen_symbol) THEN "WHITE" ELSE "BLACK"
        key == StrLower(fen_symbol)
    IN  IF Len(key) = 1 /\ key[1] \in DOMAIN FEN_PIECETYPE_MAP
        THEN Return(Piece(FEN_PIECETYPE_MAP[key[1]], color))
        ELSE Raise("InvalidFENError", fen_symbol)

\* The loop of board_from_fen from character i on, with the loop's row and col.
RECURSIVE BoardLoop(_, _, _, _, _)
BoardLoop(s, i, board, row, col) ==
    IF i > Len(s)
    THEN Return(board)
    ELSE LET c == s[i]
         IN  IF c = "/"
             THEN BoardLoop(s, i + 1, board, row - 1, 0)
             ELSE IF CharIsDigit(c)
                  THEN IF c \in AsciiDigits
                       THEN BoardLoop(s, i + 1, board, row, col + DigitValue(c))
                       ELSE Raise("ValueError", <<c>>)
                  ELSE LET piece == piece_from_fen(<<c>>)
                           placed == set_piece(board, piece.value, row, col)
                       IN  IF piece.kind = "raise" THEN piece
                           ELSE IF placed.kind = "raise" THEN placed
                           ELSE BoardLoop(s, i + 1, placed.value, row, col + 1)

board_from_fen_start_row_0(piece_placement_fen) ==
    BoardLoop(piece_placement_fen, 1, create_empty_squares, 0, 0)

board_from_fen(piece_placement_fen) ==
    BoardLoop(piece_placement_fen, 1, create_empty_squares, 7, 0)

\* The ChessGame that game_from_fen fills in, or the first exception raised.
game_from_fen(fen) ==
    IF ~is_valid_fen(fen)
    THEN Raise("InvalidFENError", fen)
    ELSE
    LET fields == StrSplitOn(fen, " ")
        n == Len(fields)
        board == board_from_fen(fields[1])
        en_passant_square ==
            IF fields[4] = <<"-">> THEN Return(<<>>) ELSE squarename_to_index(fields[4])
        halfmove_counter == PyInt(fields[5])
        fullmove_counter == PyInt(fields[6])
    IN  IF board.kind = "raise" THEN board
        ELSE IF n < 2 THEN Raise("IndexError", <<1>>)
        ELSE IF n < 3 THEN Raise("IndexError", <<2>>)
        ELSE IF n < 4 THEN Raise("IndexError", <<3>>)
        ELSE IF en_passant_square.kind = "raise" THEN en_passant_square
        ELSE IF n < 5 THEN Raise("IndexError", <<4>>)
        ELSE IF halfmove_counter.kind = "raise" THEN halfmove_counter
        ELSE IF n < 6 THEN Raise("IndexError", <<5>>)
        ELSE IF fullmove_counter.kind = "raise" THEN fullmove_counter
        ELSE Return([board |-> board.value,
                     active_color |-> IF fields[2] = <<"w">> THEN "WHITE" ELSE "BLACK",
                     white_castle_kingside |-> StrFind(fields[3], "K") >= 0,
                     white_castle_queenside |-> StrFind(fields[3], "Q") >= 0,
                     black_castle_kingside |-> StrFind(fields[3], "k") >= 0,
                     black_castle_queenside |-> StrFind(fields[3], "q") >= 0,
                     en_passant_square |-> en_passant_square.value,
                     halfmove_counter |-> halfmove_counter.value,
                     fullmove_counter |-> fullmove_counter.value])

(***************************************************************************)
(* The inputs of the calls.  Bounds of the model:                          *)
(*   MaxSepRun    the longest run of whitespace put between two fields     *)
(*   MaxFields    the largest number of fields of an input string          *)
(*   MaxRanks     the largest number of ranks of a placement field         *)
(*   CoordMargin  how far outside the board a coordinate is drawn          *)
(***************************************************************************)

MaxSepRun == 2

MaxFields == 7

MaxRanks == 9

CoordMargin == 1

RECURSIVE JoinWith(_, _)
JoinWith(pieces, sep) ==
    IF Len(pieces) = 0 THEN <<>>
    ELSE IF Len(pieces) = 1 THEN pieces[1]
    ELSE pieces[1] \o sep \o JoinWith(Tail(pieces), sep)

\* The whitespace strings of at most n characters.
RECURSIVE WsRuns(_)
WsRuns(n) ==
    IF n = 0 THEN {<<>>}
    ELSE LET shorter == WsRuns(n - 1)
         IN  shorter \cup {Append(s, w) : s \in shorter, w \in Whitespace}

\* A FEN string of the six fields in order, single spaces between them.
MkFen(placement, color, castling, ep, half, full) ==
    JoinWith(<<placement, color, castling, ep, half, full>>, <<" ">>)

Empty8 == <<"8">>

\* Rank 8 and rank 1 as the castling rules see them.
BlackBackRanks ==
    {<<"4", "k", "3">>, <<"r", "3", "k", "2", "r">>, <<"r", "3", "k", "3">>,
     <<"4", "k", "2", "r">>, <<"k", "7">>, <<"3", "k", "k", "3">>, <<"8">>}

WhiteBackRanks ==
    {<<"4", "K", "3">>, <<"R", "3", "K", "2", "R">>, <<"R", "3", "K", "3">>,
     <<"4", "K", "2", "R">>, <<"K", "7">>, <<"3", "K", "K", "3">>, <<"8">>}

CastlingFields ==
    {<<"-">>, <<"K">>, <<"Q">>, <<"k">>, <<"q">>, <<"K", "Q">>, <<"k", "q">>,
     <<"K", "Q", "k", "q">>, <<"K", "K">>, <<"K", "q">>}

\* Positions that differ in kings and rooks on the back ranks, with every
\* castling field.
CastlingFens ==
    {MkFen(JoinWith(<<bb, Empty8, Empty8, Empty8, Empty8, Empty8, Empty8, wb>>, <<"/">>),
           <<"w">>, castling, <<"-">>, <<"0">>, <<"1">>) :
        bb \in BlackBackRanks, wb \in WhiteBackRanks, castling \in CastlingFields}

\* Ranks 6 to 3 as the en-passant rule sees them.
PawnRanks ==
    {<<"8">>, <<"p", "7">>, <<"P", "7">>, <<"1", "p", "6">>}

EnPassantFields ==
    {<<"a", "6">>, <<"a", "3">>, <<"b", "6">>, <<"h", "3">>}

EnPassantFens ==
    {MkFen(JoinWith(<<<<"4", "k", "3">>, Empty8, r6, r5, r4, r3, Empty8, <<"4", "K", "3">>>>,
                    <<"/">>),
           color, <<"-">>, ep, <<"0">>, <<"1">>) :
        r6 \in PawnRanks, r5 \in PawnRanks \ {<<"P", "7">>}, r4 \in PawnRanks \ {<<"p", "7">>},
        r3 \in PawnRanks \ {<<"1", "p", "6">>}, color \in {<<"w">>, <<"b">>},
        ep \in EnPassantFields}

KingsOnly == <<"4", "k", "3", "/", "8", "/", "8", "/", "8", "/", "8", "/", "8", "/",
   "8", "/", "4", "K", "3">>

\* Placement fields that break one grammar rule each, and two that break none.
GrammarPlacements ==
    {<<"4", "k", "3", "/", "8", "/", "8", "/", "8", "/", "8", "/", "8", "/", "8", "/",
       "4", "K", "3">>,
     <<"4", "k", "3", "/", "8", "/", "8", "/", "8", "/", "8", "/", "8", "/", "4", "K", "3">>,
     <<"4", "k", "3", "/", "8", "/", "8", "/", "8", "/", "8", "/", "8", "/", "8", "/",
        "8", "/", "4", "K", "3">>,
     <<"4", "k", "3", "/", "8", "/", "8", "/", "8", "/", "8", "/", "8", "/", "9", "/",
        "4", "K", "3">>,
     <<"4", "k", "3", "/", "8", "/", "8", "/", "8", "/", "8", "/", "8", "/", "7", "/",
        "4", "K", "3">>,
     <<"4", "k", "3", "/", "8", "/", "8", "/", "8", "/", "8", "/", "8", "/", "K", "8",
        "/", "8">>,
     <<"4", "k", "3", "/", "8", "/", "8", "/", "8", "/", "8", "/", "8", "/", "4", "4",
        "K", "/", "8">>,
     <<"4", "k", "3", "/", "8", "/", "8", "/", "8", "/", "8", "/", "8", "/", "P", "P",
        "P", "P", "P", "P", "P", "Z", "/", "4", "K", "3">>,
     <<"4", "k", "3", "/", "8", "/", "8", "/", "8", "/", "8", "/", "8", "/", "p", "p",
        "p", "p", "p", "p", "p", "p", "p", "/", "4", "K", "3">>,
     <<"4", "k", "3", "/", "/", "8", "/", "8", "/", "8", "/", "8", "/", "8", "/", "8",
        "/", "4", "K", "3">>,
     <<"4", "k", "3", "/", "8", "/", "8", "/", "8", "/", "8", "/", "8", "/", "SUP2",
        "6", "/", "4", "K", "3">>,
     <<"4", "k", "3", "/", "8", "/", "8", "/", "8", "/", "8", "/", "8", "/", "0", "K",
        "7", "/", "8">>,
     <<"8", "/", "8", "/", "8", "/", "8", "/", "8", "/", "8", "/", "8", "/", "8">>}

GrammarColors ==
    {<<"w">>, <<"b">>, <<"x">>, <<"W">>, <<"w", "b">>}

GrammarCastlings ==
    {<<"-">>, <<"K", "Q", "a">>, <<"-", "-">>, <<"K", "-">>}

GrammarEnPassants ==
    {<<"-">>, <<"e", "9">>, <<"a", "a">>, <<"a", "6", "6">>, <<"A", "6">>, <<"i", "3">>,
     <<"6", "a">>}

GrammarClocks ==
    {<<"0">>, <<"1">>, <<"1", "0">>, <<"0", "0">>, <<"-", "1">>, <<"+", "1">>, <<"x">>,
     <<"SUP2">>, <<"1", "SUP2">>, <<"1", "x">>}

GrammarFens ==
    {MkFen(placement, color, <<"-">>, <<"-">>, <<"0">>, <<"1">>) :
        placement \in GrammarPlacements, color \in GrammarColors}
    \cup {MkFen(KingsOnly, <<"w">>, castling, ep, <<"0">>, <<"1">>) :
        castling \in GrammarCastlings, ep \in GrammarEnPassants}
    \cup {MkFen(KingsOnly, <<"b">>, <<"-">>, <<"-">>, half, full) :
        half \in GrammarClocks, full \in GrammarClocks}

\* The fields of three strings the validator accepts when single spaces separate them.
SpacingBases ==
    {<<<<"r", "n", "b", "q", "k", "b", "n", "r", "/", "p", "p", "p", "p", "p", "p",
        "p", "p", "/", "8", "/", "8", "/", "8", "/", "8", "/", "P", "P", "P", "P",
        "P", "P", "P", "P", "/", "R", "N", "B", "Q", "K", "B", "N", "R">>,
       <<"w">>, <<"K", "Q", "k", "q">>, <<"-">>, <<"0">>, <<"1">>>>,
     <<<<"r", "n", "b", "q", "1", "r", "k", "1", "/", "p", "p", "p", "2", "p", "p",
        "p", "/", "3", "b", "1", "n", "2", "/", "3", "p", "4", "/", "3", "P", "4",
        "/", "2", "N", "1", "P", "N", "2", "/", "P", "P", "P", "1", "B", "P", "P",
        "P", "/", "R", "1", "B", "Q", "K", "2", "R">>,
       <<"b">>, <<"K", "Q">>, <<"e", "3">>, <<"2">>, <<"8">>>>,
     <<<<"4", "k", "3", "/", "8", "/", "8", "/", "8", "/", "8", "/", "8", "/", "8",
        "/", "4", "K", "3">>,
       <<"w">>, <<"-">>, <<"-">>, <<"0">>, <<"1">>>>}

\* The fields of base with the whitespace run sep in gap number gap (between
\* field gap and field gap + 1), single spaces in the other gaps, and lead
\* and trail around the whole.
Spaced(base, gap, sep, lead, trail) ==
    lead \o JoinWith(<<JoinWith(SubSeq(base, 1, gap), <<" ">>),
                       JoinWith(SubSeq(base, gap + 1, Len(base)), <<" ">>)>>, sep) \o trail

SpacingFens ==
    {Spaced(base, gap, sep, lead, trail) :
        base \in SpacingBases, gap \in 1..5, sep \in WsRuns(MaxSepRun) \ {<<>>},
        lead \in {<<>>, <<" ">>}, trail \in {<<>>, <<"\n">>}}

\* Strings of 0..MaxFields fields.
FieldCountFens ==
    {JoinWith([i \in 1..n |-> IF i <= 6 THEN base[i] ELSE <<"1">>], <<" ">>) :
        base \in SpacingBases, n \in 0..MaxFields}

FenInputs == CastlingFens \cup EnPassantFens \cup GrammarFens \cup SpacingFens \cup FieldCountFens

\* Ranks with pieces on every file and after every skip.
Rank8Choices ==
    {<<"r", "n", "b", "q", "k", "b", "n", "r">>, <<"r", "3", "k", "2", "r">>, <<"8">>,
     <<"4", "k", "3">>}

Rank7Choices ==
    {<<"p", "p", "p", "p", "p", "p", "p", "p">>, <<"p", "1", "p", "p", "q", "p", "b", "1">>,
     <<"8">>}

Rank2Choices ==
    {<<"P", "P", "P", "P", "P", "P", "P", "P">>, <<"P", "P", "P", "B", "B", "P", "P", "P">>}

Rank1Choices ==
    {<<"R", "N", "B", "Q", "K", "B", "N", "R">>, <<"R", "3", "K", "2", "R">>, <<"7", "P">>}

PiecePlacements ==
    {JoinWith(<<r8, r7, r6, r5, r4, r3, r2, r1>>, <<"/">>) :
        r8 \in Rank8Choices, r7 \in Rank7Choices,
        r6 \in {Empty8, <<"b", "n", "2", "p", "n", "p", "1">>},
        r5 \in {Empty8, <<"3", "P", "N", "3">>},
        r4 \in {Empty8, <<"1", "p", "2", "P", "3">>},
        r3 \in {Empty8, <<"2", "N", "2", "Q", "1", "p">>},
        r2 \in Rank2Choices, r1 \in Rank1Choices}

\* Placement fields of 0..MaxRanks equal ranks.
RankCountPlacements ==
    {JoinWith([i \in 1..n |-> rank], <<"/">>) :
        rank \in {Empty8, <<"K", "7">>, <<"7", "q">>}, n \in 0..MaxRanks}

\* Placement fields that reach the edges of the board list.
OddPlacements ==
    {<<"i", "n", "v", "a", "l", "i", "d">>, <<"8", "K">>, <<"9", "K">>,
     <<"8", "/", "8", "/", "8", "/", "8", "/", "8", "/", "8", "/", "8", "/", "8", "/",
        "8", "/", "8", "/", "8", "/", "8", "/", "8", "/", "8", "/", "8", "/", "8", "/",
        "K", "7">>,
     <<"K", "7", "\t">>, <<"k">>}

PlacementInputs ==
    PiecePlacements \cup RankCountPlacements \cup GrammarPlacements \cup OddPlacements

\* Coordinates on the board and CoordMargin beyond each edge.
Coords == (0 - CoordMargin)..(BoardSize - 1 + CoordMargin)

\* Square names: every pair of these characters, and other lengths.
NameInputs ==
    {<<f, r>> : f \in {"a", "b", "c", "d", "e", "f", "g", "h",
                       "A", "B", "C", "D", "E", "F", "G", "H",
                       "i", "I", "1", " ", "$", "KELVIN"},
                r \in {"1", "2", "3", "4", "5", "6", "7", "8",
                       "0", "9", "a", "A", " ", "SUP2"}}
    \cup {<<>>, <<"a">>, <<"1">>, <<"$">>, <<"a", "1", "1">>, <<"a", "1", " ">>,
          <<" ", "a", "1">>, <<"a", "1", "b">>, <<"$", "$", "$">>}

\* Piece symbols: the twelve letters, other single characters, the empty
\* string and strings of several characters.
SymbolInputs ==
    {<<ch>> : ch \in {"p", "r", "n", "b", "q", "k", "P", "R", "N", "B", "Q", "K",
                      "a", "x", "Z", "1", "8", " ", "/", "-", "SUP2", "KELVIN"}}
    \cup {<<>>, <<"p", "p">>, <<"K", "K">>, <<"K", "k">>, <<"k", " ">>, <<" ", "Q">>,
          <<"k", "i", "n", "g">>}

(***************************************************************************)
(* The state machine: one call of one function from the idle state.  pc    *)
(* names the function called, arg its argument and ret what it returned or *)
(* raised.                                                                 *)
(***************************************************************************)

Init ==
    /\ pc = "idle"
    /\ arg = <<>>
    /\ ret = <<>>
    /\ squares = create_empty_squares
    /\ calls = 0

CallIsValidFen ==
    /\ pc = "idle"
    /\ \E fen \in FenInputs :
        /\ pc' = "is_valid_fen"
        /\ arg' = fen
        /\ ret' = is_valid_fen(fen)
        /\ UNCHANGED <<squares, calls>>

CallGameFromFen ==
    /\ pc = "idle"
    /\ \E fen \in FenInputs :
        /\ pc' = "game_from_fen"
        /\ arg' = fen
        /\ ret' = game_from_fen(fen)
        /\ UNCHANGED <<squares, calls>>

CallBoardFromFen ==
    /\ pc = "idle"
    /\ \E piece_placement_fen \in PlacementInputs :
        /\ pc' = "board_from_fen"
        /\ arg' = piece_placement_fen
        /\ ret' = board_from_fen(piece_placement_fen)
        /\ UNCHANGED <<squares, calls>>

CallIndexToSquarename ==
    /\ pc = "idle"
    /\ \E row \in Coords, col \in Coords :
        /\ pc' = "index_to_squarename"
        /\ arg' = <<row, col>>
        /\ ret' = index_to_squarename(row, col)
        /\ UNCHANGED <<squares, calls>>

\* The name index_to_squarename returned, handed to squarename_to_index; arg
\* stays the (row, col) the name was made from.
CallSquarenameOfIndex ==
    /\ pc = "index_to_squarename"
    /\ ret.kind = "return"
    /\ pc' = "round_trip"
    /\ arg' = arg
    /\ ret' = squarename_to_index(ret.value)
    /\ UNCHANGED <<squares, calls>>

CallSquarenameToIndex ==
    /\ pc = "idle"
    /\ \E square_name \in NameInputs :
        /\ pc' = "squarename_to_index"
        /\ arg' = square_name
        /\ ret' = squarename_to_index(square_name)
        /\ UNCHANGED <<squares, calls>>

CallFromFenSymbol ==
    /\ pc = "idle"
    /\ \E fen \in SymbolInputs :
        /\ pc' = "from_fen_symbol"
        /\ arg' = fen
        /\ ret' = from_fen_symbol(fen)
        /\ UNCHANGED <<squares, calls>>

CallPieceFromFen ==
    /\ pc = "idle"
    /\ \E fen_symbol \in SymbolInputs :
        /\ pc' = "piece_from_fen"
        /\ arg' = fen_symbol
        /\ ret' = piece_from_fen(fen_symbol)
        /\ UNCHANGED <<squares, calls>>

Next ==
    \/ CallIsValidFen
    \/ CallGameFromFen
    \/ CallBoardFromFen
    \/ CallIndexToSquarename
    \/ CallSquarenameOfIndex
    \/ CallSquarenameToIndex
    \/ CallFromFenSymbol
    \/ CallPieceFromFen

Spec == Init /\ [][Next]_vars

(***************************************************************************)
(* The board store: a ChessBoard and at most MaxCalls calls of its         *)
(* methods.  arg holds the arguments of the last call, self (the squares   *)
(* when the call was made) included, and ret what it returned or raised.   *)
(***************************************************************************)

MaxCalls == 3

StartPlacement ==
    JoinWith(<<<<"r", "n", "b", "q", "k", "b", "n", "r">>,
               <<"p", "p", "p", "p", "p", "p", "p", "p">>,
               Empty8, Empty8, Empty8, Empty8,
               <<"P", "P", "P", "P", "P", "P", "P", "P">>,
               <<"R", "N", "B", "Q", "K", "B", "N", "R">>>>, <<"/">>)

\* The boards a call sequence starts from: ChessBoard() and the boards
\* board_from_fen returns for the start position and for two bare kings.
InitialBoards ==
    {create_empty_squares, board_from_fen(StartPlacement).value, board_from_fen(KingsOnly).value}

\* Squares on the board: e1, e8 and a4.
SquaresInside == {<<0, 4>>, <<BoardSize - 1, 4>>, <<3, 0>>}

\* Squares off the board: a row and a column CoordMargin below 0, a column
\* CoordMargin past the last, and a row further below 0 than the board is high.
SquaresOutside ==
    {<<0 - CoordMargin, 4>>, <<3, 0 - CoordMargin>>, <<0, BoardSize - 1 + CoordMargin>>,
     <<0 - BoardSize - CoordMargin, 0>>}

SquareInputs == SquaresInside \cup SquaresOutside

PieceInputs == {None, Piece("KING", "WHITE"), Piece("KING", "BLACK")}

BoardInit ==
    /\ pc = "idle"
    /\ arg = <<>>
    /\ ret = <<>>
    /\ squares \in InitialBoards
    /\ calls = 0

GetSquare ==
    /\ calls < MaxCalls
    /\ \E sq \in SquareInputs :
        /\ pc' = "get_square"
        /\ arg' = [self |-> squares, row |-> sq[1], col |-> sq[2]]
        /\ ret' = get_square(squares, sq[1], sq[2])
    /\ calls' = calls + 1
    /\ UNCHANGED squares

SetPiece ==
    /\ calls < MaxCalls
    /\ \E piece \in PieceInputs, sq \in SquareInputs :
        LET result == set_piece(squares, piece, sq[1], sq[2])
        IN  /\ pc' = "set_piece"
            /\ arg' = [self |-> squares, piece |-> piece, row |-> sq[1], col |-> sq[2]]
            /\ ret' = IF result.kind = "raise" THEN result ELSE Return(<<>>)
            /\ squares' = IF result.kind = "raise" THEN squares ELSE result.value
    /\ calls' = calls + 1

MovePiece ==
    /\ calls < MaxCalls
    /\ \E start \in SquareInputs, end \in SquareInputs :
        LET result == move_piece(squares, start[1], start[2], end[1], end[2])
        IN  /\ pc' = "move_piece"
            /\ arg' = [self |-> squares, start_row |-> start[1], start_col |-> start[2],
                        end_row |-> end[1], end_col |-> end[2]]
            /\ ret' = IF result.kind = "raise" THEN result ELSE Return(<<>>)
            /\ squares' = IF result.kind = "raise" THEN squares ELSE result.value
    /\ calls' = calls + 1

FindKing ==
    /\ calls < MaxCalls
    /\ \E color \in {"WHITE", "BLACK"} :
        /\ pc' = "find_king"
        /\ arg' = [self |-> squares, color |-> color]
        /\ ret' = find_king(squares, color)
    /\ calls' = calls + 1
    /\ UNCHANGED squares

BoardNext ==
    \/ GetSquare
    \/ SetPiece
    \/ MovePiece
    \/ FindKing

BoardSpec == BoardInit /\ [][BoardNext]_vars

(***************************************************************************)
(* The vocabulary of the properties: the grammar and the board as the      *)
(* specification words them, read off the fields of the string.            *)
(***************************************************************************)

\* The fields of a string: trimmed, then split on runs of whitespace.
Fields(fen) == StrSplit(StrStrip(fen))

CountChar(s, ch) == Cardinality({i \in 1..Len(s) : s[i] = ch})

\* A literal made of the decimal digits 0-9 only.
DecimalLiteral(s) == Len(s) >= 1 /\ \A i \in 1..Len(s) : s[i] \in AsciiDigits

LiteralValue(s) == DigitsValue(s, 1, 0)

\* The files a rank covers: the digits' values plus one per letter.
RECURSIVE RankWidth(_)
RankWidth(rank) ==
    IF rank = <<>> THEN 0
    ELSE (IF Head(rank) \in AsciiDigits THEN DigitValue(Head(rank)) ELSE 1)
         + RankWidth(Tail(rank))

\* A rank written out file by file: "" for each file a digit skips.
RECURSIVE ExpandRank(_)
ExpandRank(rank) ==
    IF rank = <<>> THEN <<>>
    ELSE (IF Head(rank) \in AsciiDigits
          THEN [i \in 1..DigitValue(Head(rank)) |-> ""]
          ELSE <<Head(rank)>>) \o ExpandRank(Tail(rank))

RankGrammar(rank) ==
    /\ \A i \in 1..Len(rank) : rank[i] \in PieceChars \cup {"1", "2", "3", "4", "5", "6", "7", "8"}
    /\ RankWidth(rank) = 8

\* Placement grammar: exactly 8 '/'-separated ranks, each totalling 8.
PlacementGrammar(placement) ==
    LET ranks == StrSplitOn(placement, "/")
    IN  Len(ranks) = 8 /\ \A i \in 1..8 : RankGrammar(ranks[i])

\* The letter on square (row, col) of a placement that passes the grammar,
\* "" when the square is empty: row 7 is the first rank written.
LetterAt(placement, row, col) == ExpandRank(StrSplitOn(placement, "/")[8 - row])[col + 1]

\* The grammar rules up to the halfmove clock.
GrammarToHalfmove(fen) ==
    LET f == Fields(fen)
    IN  /\ Len(f) = 6
        /\ PlacementGrammar(f[1])
        /\ f[2] \in {<<"w">>, <<"b">>}
        /\ \/ f[3] = <<"-">>
           \/ Len(f[3]) >= 1 /\ \A i \in 1..Len(f[3]) : f[3][i] \in {"K", "Q", "k", "q"}
        /\ \/ f[4] = <<"-">>
           \/ /\ Len(f[4]) = 2
              /\ f[4][1] \in {"a", "b", "c", "d", "e", "f", "g", "h"}
              /\ f[4][2] \in {"3", "6"}
        /\ DecimalLiteral(f[5])

PositiveLiteral(s) == DecimalLiteral(s) /\ LiteralValue(s) >= 1

\* All seven grammar rules.
Grammar(fen) == GrammarToHalfmove(fen) /\ PositiveLiteral(Fields(fen)[6])

OneKingEach(placement) == CountChar(placement, "K") = 1 /\ CountChar(placement, "k") = 1

\* A castling flag's king and rook stand on their home squares.
HomeSquares(placement, flag) ==
    CASE flag = "K" -> LetterAt(placement, 0, 4) = "K" /\ LetterAt(placement, 0, 7) = "R"
      [] flag = "Q" -> LetterAt(placement, 0, 4) = "K" /\ LetterAt(placement, 0, 0) = "R"
      [] flag = "k" -> LetterAt(placement, 7, 4) = "k" /\ LetterAt(placement, 7, 7) = "r"
      [] flag = "q" -> LetterAt(placement, 7, 4) = "k" /\ LetterAt(placement, 7, 0) = "r"

CastlingConsistent(placement, castling) ==
    castling = <<"-">> \/ \A i \in 1..Len(castling) : HomeSquares(placement, castling[i])

\* The en-passant rule: white to move, a rank-6 square and a black pawn on
\* rank 5 (row 4) of its file; or black to move, a rank-3 square and a white
\* pawn on rank 4 (row 3) of its file.
EnPassantPlausible(placement, color, ep) ==
    LET file == StrFind(FileChars, ep[1])
    IN  \/ color = <<"w">> /\ ep[2] = "6" /\ LetterAt(placement, 4, file) = "p"
        \/ color = <<"b">> /\ ep[2] = "3" /\ LetterAt(placement, 3, file) = "P"

(***************************************************************************)
(* C1 .. C5: is_valid_fen                                                  *)
(***************************************************************************)

\* C1: is_valid_fen returns true only if the grammar rules hold: exactly 6
\* whitespace-separated fields, a placement of exactly 8 ranks each totalling
\* 8, an active color w or b, a castling field - or a non-empty string over
\* KQkq, an en-passant field - or [a-h][36], and a digits-only halfmove field.
C1_TrueOnlyIfGrammar ==
    (pc = "is_valid_fen" /\ ret = TRUE) => GrammarToHalfmove(arg)

\* C1, for strings whose halfmove field holds decimal digits or no digit
\* character at all (not stated by the claim): true only if the grammar holds.
C1_TrueOnlyIfGrammarDecimal ==
    (/\ pc = "is_valid_fen"
     /\ ret = TRUE
     /\ Len(Fields(arg)) = 6
     /\ \A i \in 1..Len(Fields(arg)[5]) : Fields(arg)[5][i] # "SUP2") => GrammarToHalfmove(arg)

C3_CastlingConsistency ==
    (/\ pc = "is_valid_fen"
     /\ Grammar(arg)
     /\ OneKingEach(Fields(arg)[1])
     /\ Fields(arg)[4] = <<"-">>)
        => (ret = TRUE <=> CastlingConsistent(Fields(arg)[1], Fields(arg)[3]))

\* C3 witness: castling field Kq, K's king and rook at home, the black king
\* on e8 but no rook on a8: the one mismatching flag rejects the string.
C3_Witness ==
    /\ pc = "is_valid_fen"
    /\ Grammar(arg)
    /\ OneKingEach(Fields(arg)[1])
    /\ Fields(arg)[4] = <<"-">>
    /\ Fields(arg)[3] = <<"K", "q">>
    /\ HomeSquares(Fields(arg)[1], "K")
    /\ LetterAt(Fields(arg)[1], 7, 4) = "k"
    /\ LetterAt(Fields(arg)[1], 7, 0) # "r"
    /\ ret = FALSE

\* C4: for a string that passes the grammar, the king-count rule and the
\* castling rule and names an en-passant square, is_valid_fen is true iff the
\* active color is w, the square is on rank 6 and the square south of it (rank
\* 5) holds a black pawn, or the active color is b, the square is on rank 3
\* and the square north of it (rank 4) holds a white pawn.
C4_EnPassantPlausibility ==
    (/\ pc = "is_valid_fen"
     /\ Grammar(arg)
     /\ OneKingEach(Fields(arg)[1])
     /\ CastlingConsistent(Fields(arg)[1], Fields(arg)[3])
     /\ Fields(arg)[4] # <<"-">>)
        => (ret = TRUE <=> EnPassantPlausible(Fields(arg)[1], Fields(arg)[2], Fields(arg)[4]))

\* C5: is_valid_fen returns false for every string whose fullmove field is
\* not a positive integer literal, a fullmove field of 0 included.
C5_FullmovePositive ==
    (/\ pc = "is_valid_fen"
     /\ Len(Fields(arg)) = 6
     /\ ~PositiveLiteral(Fields(arg)[6])) => ret = FALSE

(***************************************************************************)
(* C6 .. C9: the decoders                                                  *)
(***************************************************************************)

\* C6: for every string is_valid_fen accepts, game_from_fen returns a snapshot
\* built from the six whitespace-separated fields the validator checked:
\* active color WHITE iff field 2 is w, each castling flag true iff its letter
\* occurs in field 3, en-passant square none for - and otherwise the codec's
\* (row, col) of field 4, halfmove and fullmove the integer values of fields
\* 5 and 6.
C6_SnapshotOfValidatedFields ==
    (pc = "game_from_fen" /\ is_valid_fen(arg)) =>
        /\ ret.kind = "return"
        /\ LET f == Fields(arg)
               game == ret.value
           IN  /\ (game.active_color = "WHITE") <=> (f[2] = <<"w">>)
               /\ game.active_color \in {"WHITE", "BLACK"}
               /\ game.white_castle_kingside <=> (CountChar(f[3], "K") > 0)
               /\ game.white_castle_queenside <=> (CountChar(f[3], "Q") > 0)
               /\ game.black_castle_kingside <=> (CountChar(f[3], "k") > 0)
               /\ game.black_castle_queenside <=> (CountChar(f[3], "q") > 0)
               /\ game.en_passant_square =
                      IF f[4] = <<"-">> THEN <<>> ELSE squarename_to_index(f[4]).value
               /\ DecimalLiteral(f[5]) /\ game.halfmove_counter = LiteralValue(f[5])
               /\ DecimalLiteral(f[6]) /\ game.fullmove_counter = LiteralValue(f[6])

\* C7: game_from_fen either returns a snapshot or fails with InvalidFENError
\* carrying the original string; it raises InvalidFENError for every string
\* is_valid_fen rejects and never ends with an error of another kind.
C7_OnlyInvalidFENError ==
    pc = "game_from_fen" =>
        /\ \/ ret.kind = "return"
           \/ ret.kind = "raise" /\ ret.exc = "InvalidFENError" /\ ret.value = arg
        /\ ~is_valid_fen(arg) => (ret.kind = "raise" /\ ret.exc = "InvalidFENError")

\* The piece the claim expects on a square from the letter written for it.
PieceOfLetter(letter) == IF letter = "" THEN None ELSE piece_from_fen(<<letter>>).value

\* C8: for a placement field that passes the placement grammar, board_from_fen
\* returns a board whose row 7-i holds the i-th '/'-separated group written
\* out left to right: each letter on the column equal to the file count before
\* it, as the piece decoded from it, and every other square empty.
C8_BoardOfPlacement ==
    (pc = "board_from_fen" /\ PlacementGrammar(arg)) =>
        /\ ret.kind = "return"
        /\ \A row \in 0..7, col \in 0..7 :
               ret.value[row][col] = PieceOfLetter(LetterAt(arg, row, col))

\* C8 witness: a grammatical placement decoded with a black rook on a8, a
\* black knight on f6 (after a skip of 2), a white pawn on h1 (after a skip of
\* 7) and a8's neighbour row 6 empty at b7.
C8_Witness ==
    /\ pc = "board_from_fen"
    /\ PlacementGrammar(arg)
    /\ ret.kind = "return"
    /\ ret.value[7][0] = Piece("ROOK", "BLACK")
    /\ ret.value[5][5] = Piece("KNIGHT", "BLACK")
    /\ ret.value[0][7] = Piece("PAWN", "WHITE")
    /\ ret.value[6][1] = None

\* C9: board_from_fen fails with InvalidFENError, and returns no board, for
\* every placement field that does not pass the placement grammar.
C9_RejectsBadPlacement ==
    (pc = "board_from_fen" /\ ~PlacementGrammar(arg)) =>
        (ret.kind = "raise" /\ ret.exc = "InvalidFENError")

(***************************************************************************)
(* C10: the square codec                                                   *)
(***************************************************************************)

\* C10: for every (row, col) in 0..7 x 0..7, index_to_squarename names the
\* square by file letter a..h for column 0..7 and rank digit 1..8 for row 0..7,
\* and squarename_to_index of that name is (row, col) again.
C10_RoundTrip ==
    /\ (pc = "index_to_squarename" /\ arg[1] \in 0..7 /\ arg[2] \in 0..7) =>
           /\ ret.kind = "return"
           /\ ret.value = <<FileChars[arg[2] + 1], RankChars[arg[1] + 1]>>
    /\ pc = "round_trip" => (ret.kind = "return" /\ ret.value = arg)

\* C10 witness: (7, 0) named a8 and decoded back to (7, 0).
C10_Witness ==
    /\ pc = "round_trip"
    /\ arg = <<7, 0>>
    /\ ret.kind = "return"
    /\ ret.value = <<7, 0>>

(***************************************************************************)
(* C11: the domain of the square codec                                     *)
(***************************************************************************)

\* The file letters a square name may start with, in either case.
NameFiles == {"a", "b", "c", "d", "e", "f", "g", "h", "A", "B", "C", "D", "E", "F", "G", "H"}

NameRanks == {"1", "2", "3", "4", "5", "6", "7", "8"}

\* The names the claim puts in the domain of squarename_to_index.
NameInDomain(name) == Len(name) = 2 /\ name[1] \in NameFiles /\ name[2] \in NameRanks

\* C11: index_to_squarename raises NotationError whenever row or col is
\* outside 0..7 (negative values included) and otherwise returns a lowercase
\* file letter a..h followed by the digit of row + 1; squarename_to_index
\* returns exactly for the 2-character names made of a letter a-h in either
\* case and a digit 1-8, and raises NotationError for every other name.
C11_CodecDomain ==
    /\ pc = "index_to_squarename" =>
           IF arg[1] \in 0..7 /\ arg[2] \in 0..7
           THEN /\ ret.kind = "return"
                /\ Len(ret.value) = 2
                /\ ret.value[1] = LowerChars[arg[2] + 1]
                /\ ret.value[1] \in {"a", "b", "c", "d", "e", "f", "g", "h"}
                /\ PyInt(<<ret.value[2]>>) = Return(arg[1] + 1)
           ELSE ret.kind = "raise" /\ ret.exc = "NotationError"
    /\ pc = "squarename_to_index" =>
           IF NameInDomain(arg)
           THEN ret.kind = "return"
           ELSE ret.kind = "raise" /\ ret.exc = "NotationError"

\* C11 witness: the uppercase name H8 is decoded, to (7, 7).
C11_Witness ==
    /\ pc = "squarename_to_index"
    /\ arg = <<"H", "8">>
    /\ ret.kind = "return"
    /\ ret.value = <<7, 7>>

\* The rejections C11 is about: a negative row refused by the encoder, and a
\* 2-character name with a letter past h refused by the decoder.
C11_NegativeRowRejected ==
    /\ pc = "index_to_squarename"
    /\ arg = <<0 - 1, 0>>
    /\ ret.kind = "raise"
    /\ ret.exc = "NotationError"

C11_LetterPastHRejected ==
    /\ pc = "squarename_to_index"
    /\ arg = <<"i", "1">>
    /\ ret.kind = "raise"
    /\ ret.exc = "NotationError"

(***************************************************************************)
(* C12: piece decoding                                                     *)
(***************************************************************************)

\* The piece type the claim gives each of the twelve symbols.
TypeOfSymbol(symbol) ==
    CASE symbol \in {"p", "P"} -> "PAWN"
      [] symbol \in {"r", "R"} -> "ROOK"
      [] symbol \in {"n", "N"} -> "KNIGHT"
      [] symbol \in {"b", "B"} -> "BISHOP"
      [] symbol \in {"q", "Q"} -> "QUEEN"
      [] symbol \in {"k", "K"} -> "KING"

\* What the claim says of one call of a piece decoder on the string symbol.
DecodedAsClaimed(symbol, result, error) ==
    IF Len(symbol) = 1 /\ symbol[1] \in PieceChars
    THEN /\ result.kind = "return"
         /\ result.value.color \in {"WHITE", "BLACK"}
         /\ result.value.color = "WHITE" <=> symbol[1] \in {"P", "R", "N", "B", "Q", "K"}
         /\ result.value.type = TypeOfSymbol(symbol[1])
         /\ is_king(result.value) <=> symbol[1] \in {"k", "K"}
    ELSE result.kind = "raise" /\ result.exc = error

\* C12: for each of the twelve symbols prnbqkPRNBQK both decoders return a
\* piece that is WHITE iff the symbol is uppercase, has the type the map
\* gives the letter, and is a king iff the symbol is k or K; for every other
\* string, the empty one and longer ones included, Piece.from_fen_symbol
\* raises ValueError and piece_from_fen raises InvalidFENError.
C12_PieceDecoding ==
    /\ pc = "from_fen_symbol" => DecodedAsClaimed(arg, ret, "ValueError")
    /\ pc = "piece_from_fen" => DecodedAsClaimed(arg, ret, "InvalidFENError")

\* The statement of C12 for the strings that do not hold the Kelvin sign.
C12_PieceDecodingWithoutKelvin ==
    (/\ pc \in {"from_fen_symbol", "piece_from_fen"}
     /\ \A i \in 1..Len(arg) : arg[i] # "KELVIN") => C12_PieceDecoding

\* A string outside the twelve symbols that a decoder turns into a piece.
C12_OtherSymbolDecoded ==
    /\ pc \in {"from_fen_symbol", "piece_from_fen"}
    /\ ~(Len(arg) = 1 /\ arg[1] \in PieceChars)
    /\ ret.kind = "return"

(***************************************************************************)
(* C13 .. C15: the board store                                             *)
(***************************************************************************)

\* A coordinate pair on the board, as the claims word it.
OnBoard(row, col) == row \in 0..7 /\ col \in 0..7

\* What C13 says of the last call, a get_square or a set_piece.
BoundsCheckedCall ==
    IF OnBoard(arg.row, arg.col)
    THEN /\ ret.kind = "return"
         /\ pc = "get_square" => squares = arg.self
         /\ pc = "set_piece" =>
                squares = [arg.self EXCEPT ![arg.row][arg.col] = arg.piece]
    ELSE /\ ret.kind = "raise"
         /\ squares = arg.self

\* C13: get_square(row, col) and set_piece(piece, row, col) raise an
\* out-of-bounds error whenever row or col is outside 0..7, negative values
\* included, and then leave every square as it was; for coordinates in 0..7
\* get_square changes nothing and set_piece changes the addressed square only.
C13_BoundsChecked ==
    pc \in {"get_square", "set_piece"} => BoundsCheckedCall

\* The statement of C13 for the coordinates Python does not count from the
\* end of the list: those in_bounds accepts and those with a row or column
\* below -8 or above 7.
C13_BoundsCheckedWithoutWraparound ==
    (/\ pc \in {"get_square", "set_piece"}
     /\ \/ in_bounds(arg.row, arg.col)
        \/ ListIndex(arg.row, BoardSize) < 0
        \/ ListIndex(arg.col, BoardSize) < 0) => BoundsCheckedCall

\* A set_piece with a negative row that put its piece on the board.
C13_NegativeRowWritten ==
    /\ pc = "set_piece"
    /\ arg.row \in (0 - BoardSize)..(0 - 1)
    /\ arg.col \in 0..7
    /\ arg.piece = Piece("KING", "WHITE")
    /\ arg.self[BoardSize + arg.row][arg.col] = None
    /\ ret.kind = "return"
    /\ squares[BoardSize + arg.row][arg.col] = Piece("KING", "WHITE")

\* A get_square with a negative row that returned the piece of another square.
C13_NegativeRowRead ==
    /\ pc = "get_square"
    /\ arg.row < 0
    /\ ret.kind = "return"
    /\ ret.value = Piece("KING", "BLACK")

\* C14: for squares from and to on the board, move_piece leaves the whole
\* board unchanged if from is empty; otherwise the square to holds the piece
\* that was on from, from still holds that piece (the source is not cleared),
\* and every square other than to is unchanged.
C14_NoClearRelocation ==
    (/\ pc = "move_piece"
     /\ OnBoard(arg.start_row, arg.start_col)
     /\ OnBoard(arg.end_row, arg.end_col)) =>
        LET piece == arg.self[arg.start_row][arg.start_col]
        IN  /\ ret.kind = "return"
            /\ IF piece = None
               THEN squares = arg.self
               ELSE /\ squares[arg.end_row][arg.end_col] = piece
                    /\ squares[arg.start_row][arg.start_col] = piece
                    /\ \A row \in 0..7, col \in 0..7 :
                           <<row, col>> # <<arg.end_row, arg.end_col>> =>
                               squares[row][col] = arg.self[row][col]

\* C14 witness: a white king moved from e1 to the empty square a4 stands on
\* both squares afterwards.
C14_Witness ==
    /\ pc = "move_piece"
    /\ <<arg.start_row, arg.start_col>> = <<0, 4>>
    /\ <<arg.end_row, arg.end_col>> = <<3, 0>>
    /\ arg.self[0][4] = Piece("KING", "WHITE")
    /\ arg.self[3][0] = None
    /\ squares[3][0] = Piece("KING", "WHITE")
    /\ squares[0][4] = Piece("KING", "WHITE")

\* The other case of C14: a move from the empty square a4 onto a board that
\* holds pieces, which stays as it was.
C14_MoveFromEmptySquare ==
    /\ pc = "move_piece"
    /\ <<arg.start_row, arg.start_col>> = <<3, 0>>
    /\ <<arg.end_row, arg.end_col>> = <<7, 4>>
    /\ arg.self[3][0] = None
    /\ arg.self[7][4] = Piece("KING", "BLACK")
    /\ squares = arg.self

\* The squares of a board that hold a king of a color.
KingSquares(board, color) ==
    {sq \in (0..7) \X (0..7) : board[sq[1]][sq[2]] = Piece("KING", color)}

\* Square a is before square b, or is b, in row-major, low-to-high order.
RowMajorBefore(a, b) == a[1] < b[1] \/ (a[1] = b[1] /\ a[2] <= b[2])

\* C15: on every board reached by set_piece and move_piece calls,
\* find_king(color) returns the square that is first in row-major,
\* low-to-high order among those holding a king of that color, returns None
\* (written <<>>) exactly when no square holds one, and leaves the board as
\* it was.
C15_FirstKingRowMajor ==
    pc = "find_king" =>
        LET kings == KingSquares(arg.self, arg.color)
        IN  /\ ret.kind = "return"
            /\ squares = arg.self
            /\ ret.value = <<>> <=> kings = {}
            /\ kings # {} =>
                   /\ ret.value \in kings
                   /\ \A sq \in kings : RowMajorBefore(ret.value, sq)

\* C15 witness: white kings stand on e1 and a4, as after move_piece(0, 4, 3, 0);
\* find_king(WHITE) returns e1, the first by rows and the second by columns.
C15_Witness ==
    /\ pc = "find_king"
    /\ arg.color = "WHITE"
    /\ calls >= 2
    /\ KingSquares(arg.self, "WHITE") = {<<0, 4>>, <<3, 0>>}
    /\ ret.value = <<0, 4>>

\* The other case of C15: no black king on a board that holds white pieces.
C15_NoKingFound ==
    /\ pc = "find_king"
    /\ arg.color = "BLACK"
    /\ KingSquares(arg.self, "BLACK") = {}
    /\ KingSquares(arg.self, "WHITE") # {}
    /\ ret.value = <<>>

=============================================================================
